---------------------------- MODULE Spec2Model ----------------------------
(***************************************************************************)
(* A model of the pinning API of withoutboats/pin-api.                     *)
(*                                                                         *)
(* The crate has no run-time state of its own: what it fixes is which      *)
(* calls a client may make, and in which order, under Rust's ownership and *)
(* borrow rules.  The model is therefore a client program holding ONE      *)
(* pinning owner (a StackPinned slot, an Anchor, a PinBox) and the         *)
(* references derived from it.  A call the compiler rejects is an action   *)
(* that is not enabled; a call it accepts is a step.                       *)
(*                                                                         *)
(* The revisions of the design kept in the repository are modelled side    *)
(* by side: lib.rs (Anchor over Own + StableDeref pointers, Pin, PinMut,   *)
(* StackPinned), mem.rs (Anchor over any StableDeref pointer), heap.rs and *)
(* boxed.rs (PinBox), stack.rs (StackPinned::as_pin).  In stack.rs and     *)
(* heap.rs the type named Pin wraps `&'a mut T`: it is the type lib.rs     *)
(* names PinMut, and is modelled as such.                                  *)
(***************************************************************************)
EXTENDS Integers, FiniteSets, TLC

\* ------------------------------------------------------------------ bounds
MaxRefs == 3    \* references (Pin, PinMut, &mut T) alive at the same time
NAddr == 3      \* memory addresses
MaxClones == 1  \* clones of a reference-counted pointer besides the anchored one

RefIds == 1..MaxRefs
Addr == 1..NAddr

\* ------------------------------------------------------------------ inputs
\* Pointee types: one that keeps the auto trait, one that withholds it.
Types == {"Movable", "SelfRef"}
Fields == {"a", "b"}
\* Records pinned by the client (spec.md's scenario record is {a: 1, b: 2}).
InitVals == {[a |-> 1, b |-> 2], [a |-> 2, b |-> 1]}
\* Values written to a field, and a whole value written by replacement.
WriteVals == {5}
ReplaceVals == {[a |-> 5, b |-> 5]}
\* The pointer types the client tries to anchor.
PtrInputs == {"Box", "String", "Rc"}

\* ------------------------------------------------------------------ traits
\* unsafe auto trait MovePinned (boxed.rs calls it Unpin).
MovePinned(ty) == ty = "Movable"

Own(ptr) == ptr \in {"Box", "Vec", "String", "OsString", "CString", "PathBuf"}

StableDeref(ptr) ==
    ptr \in {"Ref", "RefMut", "Box", "Vec", "String", "OsString", "CString",
             "PathBuf", "Rc", "Arc"}

StableDerefMut(ptr) == ptr \in {"RefMut", "Box", "Vec"}

\* mem.rs: its own StableDeref, with no Own beside it.
mem_StableDeref(ptr) ==
    ptr \in {"Box", "Vec", "Rc", "Arc", "String", "PathBuf", "OsString", "CString"}

\* A pointer type whose handles share the target (Rc, Arc): dropping one
\* handle frees the target only when it is the last.
Shared(ptr) == ptr \in {"Rc", "Arc"}

\* ------------------------------------------------------------------- state
VARIABLES
    own,    \* the pinning owner the client holds (NoOwner: none)
    mem,    \* memory: the value stored at each address (Free: nothing)
    refs,   \* the live references, by id (NoRef: the id is unused)
    ret     \* what the last call returned by value to the client

vars == <<own, mem, refs, ret>>

Free == [a |-> 0, b |-> 0]

\* kind : StackPinned | Anchor (lib.rs) | mem_Anchor (mem.rs) | PinBox |
\*        Rc (a plain reference-counted handle left after its anchor is gone)
\* ptr  : the pointer type an anchor wraps
\* ty   : the target's type;  addr : the target's address
\* loc  : the address of the owner value itself (a slot holds its data
\*        inline: loc = addr)
\* lock : the loan taken for the slot's own lifetime 'a (none | shared | mut)
\* clones : handles to the target other than the owner's
\* ghost fields (history, read by the properties only):
\*   addr0, loc0 : the addresses of an anchor's or a PinBox's target and of
\*   the owner value itself at construction;
\*   exp : the value the target is meant to hold, that is the value given at
\*   construction with every write made since applied to it;
\*   pinnedMut : a pinned mutable reference has been derived from the slot
NoOwner == [kind |-> "none", ptr |-> "none", ty |-> "none", addr |-> 0, loc |-> 0,
            lock |-> "none", clones |-> 0,
            addr0 |-> 0, loc0 |-> 0, exp |-> Free, pinnedMut |-> FALSE]

\* The live references are refs[1], ..., refs[k], in the order of their
\* creation (a reference is younger than the one it reborrows).
\* kind  : Pin | PinMut | RefMut (a plain &mut T)
\* parent: 0 (borrowed from the owner) or the reference it reborrows
\* mode  : the loan it holds on its parent (shared | mut)
\* inner : the address it points to
\* taint : obtained through an unsafe call
\* n     : ghost, the as_mut reborrows taken from it so far (saturating at 2)
NoRef == [kind |-> "none", parent |-> 0, mode |-> "none", inner |-> 0,
          taint |-> FALSE, n |-> 0]

\* op : the call;  val : the value returned;  ty : its type;  owned : it was
\* moved out to the caller (not read through a shared reference);  safe : no
\* unsafe call was needed to get it;  exp : ghost, own.exp when it was returned
NoRet == [op |-> "none", val |-> Free, ty |-> "none", owned |-> FALSE, safe |-> TRUE,
          exp |-> Free]

Init ==
    /\ own = NoOwner
    /\ mem = [x \in Addr |-> Free]
    /\ refs = [r \in RefIds |-> NoRef]
    /\ ret = NoRet

\* ----------------------------------------------------------------- helpers
Live(r) == refs[r].kind # "none"
FreeIds == {r \in RefIds : ~Live(r)}
NewId == CHOOSE r \in FreeIds : \A q \in FreeIds : r <= q

\* refs without reference r: the younger references move down by one.
Without(r) ==
    [i \in RefIds |->
        IF i < r THEN refs[i]
        ELSE IF i + 1 \in RefIds /\ Live(i + 1)
             THEN [refs[i + 1] EXCEPT !.parent = IF @ > r THEN @ - 1 ELSE @]
             ELSE NoRef]

\* The live references that hold a loan on p (0: the owner).
Children(p) == {r \in RefIds : Live(r) /\ refs[r].parent = p}

\* The loan a slot's borrow leaves on the slot.  Pin::new takes
\* `&'a StackPinned<'a, T>` and PinMut::new `&'a mut StackPinned<'a, T>`; the
\* marker PhantomData<&'a mut &'a ()> makes StackPinned invariant in 'a, so
\* the borrow cannot be shortened and lasts as long as the slot does.
\* (SlotLoan_Covariant: a marker covariant in 'a would let the borrow end
\* with the reference, leaving no loan behind.)
SlotLoan_Covariant(mode) == "none"
SlotLoan(mode) == mode

\* The owner is borrowed: by a live reference, or for its own lifetime.
\* (Borrowed_OnlyMut: only exclusive loans counted.)
Borrowed_OnlyMut ==
    \/ own.lock = "mut"
    \/ \E r \in Children(0) : refs[r].mode = "mut"
Borrowed ==
    \/ own.lock # "none"
    \/ Children(0) # {}

\* The owner is borrowed exclusively.
BorrowedMut ==
    \/ own.lock = "mut"
    \/ \E r \in Children(0) : refs[r].mode = "mut"

\* `r.f = x`: the field is overwritten in place, the rest is left alone.
\* (SetField_Whole: the whole record overwritten.)
SetField_Whole(v, f, x) == [g \in Fields |-> x]
SetField(v, f, x) == [v EXCEPT ![f] = x]

\* What a read of address a can produce: a read of freed memory is undefined.
ReadSet(a) == IF mem[a] # Free THEN {mem[a]} ELSE InitVals \cup ReplaceVals

\* ------------------------------------------------------------ construction
\* pinned(data): the value is stored inline in the slot.
pinned(ty, v, a) ==
    /\ own.kind = "none"
    /\ own' = [NoOwner EXCEPT !.kind = "StackPinned", !.ty = ty, !.addr = a,
                              !.loc = a, !.exp = v]
    /\ mem' = [mem EXCEPT ![a] = v]
    /\ ret' = NoRet
    /\ UNCHANGED refs

\* The pointer handle is a local of the client, the target is where the
\* allocator put it.
HandleAddr(a) == CHOOSE l \in Addr \ {a} : \A q \in Addr \ {a} : l <= q

NewHeapOwner(kind, ptr, ty, v, loc, a) ==
    /\ own.kind = "none"
    /\ loc = HandleAddr(a)
    /\ own' = [NoOwner EXCEPT !.kind = kind, !.ptr = ptr, !.ty = ty, !.addr = a,
                              !.loc = loc, !.addr0 = a, !.loc0 = loc, !.exp = v]
    /\ mem' = [mem EXCEPT ![a] = v]
    /\ ret' = NoRet
    /\ UNCHANGED refs

\* Anchor::new (lib.rs): impl<T: Own + StableDeref> Anchor<T>.
Anchor_new(ptr, ty, v, loc, a) ==
    /\ Own(ptr) /\ StableDeref(ptr)
    /\ NewHeapOwner("Anchor", ptr, ty, v, loc, a)

\* Anchor::new (mem.rs): impl<Ptr: StableDeref> Anchor<Ptr>.
mem_Anchor_new(ptr, ty, v, loc, a) ==
    /\ mem_StableDeref(ptr)
    /\ NewHeapOwner("mem_Anchor", ptr, ty, v, loc, a)

\* PinBox::new: PinBox { inner: Box::new(data) }.
PinBox_new(ty, v, loc, a) ==
    NewHeapOwner("PinBox", "Box", ty, v, loc, a)

\* ------------------------------------------------------------ moves, drops
\* Where the target is after the owner value has moved to `to`: a slot holds
\* its data inline, an anchor or a PinBox holds a pointer (Anchor { ptr },
\* PinBox { inner: Box<T> }) and the target stays where it is.
\* (TargetAfterMove_Inline: every owner holding its target inline.)
TargetAfterMove_Inline(to) == to
TargetAfterMove(to) == IF own.kind = "StackPinned" THEN to ELSE own.addr

\* A move of the owner value (`let b = a;`, a swap, a pass by value): the
\* compiler rejects it while the owner is borrowed.
MoveOwner(to) ==
    /\ own.kind \in {"StackPinned", "Anchor", "mem_Anchor", "PinBox"}
    /\ ~Borrowed
    /\ to # own.loc /\ mem[to] = Free
    /\ LET t == TargetAfterMove(to) IN
         /\ own' = [own EXCEPT !.loc = to, !.addr = t]
         /\ mem' = IF t = own.addr THEN mem
                   ELSE [mem EXCEPT ![own.addr] = Free, ![t] = mem[own.addr]]
    /\ ret' = NoRet
    /\ UNCHANGED refs

\* The owner goes out of scope.  No reference may outlive it.  Dropping a
\* slot, a PinBox or an anchor drops what it holds: the slot's data in
\* place, the pointer otherwise; a shared pointer frees its target only when
\* it is the last handle, and the client keeps the other handles.
DropOwner ==
    /\ own.kind \in {"StackPinned", "Anchor", "mem_Anchor", "PinBox"}
    /\ Children(0) = {}
    /\ IF Shared(own.ptr) /\ own.clones > 0
         THEN /\ own' = [own EXCEPT !.kind = "Rc", !.clones = own.clones - 1]
              /\ mem' = mem
         ELSE /\ own' = NoOwner
              /\ mem' = [mem EXCEPT ![own.addr] = Free]
    /\ ret' = NoRet
    /\ UNCHANGED refs

\* A reference's lifetime ends; what was reborrowed from it has ended before.
EndRef(r) ==
    /\ Live(r)
    /\ Children(r) = {}
    /\ refs' = Without(r)
    /\ ret' = NoRet
    /\ UNCHANGED <<own, mem>>

\* ------------------------------------------------------------- derivation
Min(x, y) == IF x <= y THEN x ELSE y

MkRef(kind, parent, mode, inner, taint) ==
    [kind |-> kind, parent |-> parent, mode |-> mode, inner |-> inner,
     taint |-> taint, n |-> 0]

\* A reference derived from the owner.
FromOwner(kind, mode, taint) ==
    /\ FreeIds # {}
    /\ refs' = [refs EXCEPT ![NewId] = MkRef(kind, 0, mode, own.addr, taint)]

\* The loan a reborrow holds on the reference it was taken from: Pin::as_ref,
\* PinMut::as_ref, PinMut::as_mut, deref_mut and get_mut all take
\* `&'b mut self`, and the result carries 'b.
\* (ReborrowLoan_Shared: the receiver taken as `&'b self`.)
ReborrowLoan_Shared == "shared"
ReborrowLoan == "mut"

\* A reference can be used: it is alive and no live reborrow holds it
\* exclusively.
Usable(r) == Live(r) /\ \A c \in Children(r) : refs[c].mode # "mut"

\* A reference derived from reference p: it points where p points.
FromRef(p, kind, taint) ==
    /\ FreeIds # {}
    /\ refs' = [refs EXCEPT
                  ![NewId] = MkRef(kind, p, ReborrowLoan, refs[p].inner,
                                   refs[p].taint \/ taint),
                  ![p].n = IF kind = "PinMut" THEN Min(refs[p].n + 1, 2) ELSE @]

\* Pin::new(ptr: &'a StackPinned<'a, T>) = Pin { inner: &ptr.data }.
Pin_new ==
    /\ own.kind = "StackPinned"
    /\ ~BorrowedMut
    /\ FromOwner("Pin", "shared", FALSE)
    /\ own' = [own EXCEPT !.lock = SlotLoan("shared")]
    /\ ret' = NoRet
    /\ UNCHANGED mem

\* PinMut::new(ptr: &'a mut StackPinned<'a, T>) = PinMut { inner: &mut ptr.data }.
PinMut_new ==
    /\ own.kind = "StackPinned"
    /\ ~Borrowed
    /\ FromOwner("PinMut", "mut", FALSE)
    /\ own' = [own EXCEPT !.lock = SlotLoan("mut"), !.pinnedMut = TRUE]
    /\ ret' = NoRet
    /\ UNCHANGED mem

\* StackPinned::as_pin(&'a mut self) (stack.rs) = Pin { inner: &mut self.data }.
StackPinned_as_pin ==
    /\ own.kind = "StackPinned"
    /\ ~Borrowed
    /\ FromOwner("PinMut", "mut", FALSE)
    /\ own' = [own EXCEPT !.lock = SlotLoan("mut"), !.pinnedMut = TRUE]
    /\ ret' = NoRet
    /\ UNCHANGED mem

\* Anchor::as_pin(&'a self) = Pin::anchored(self) = Pin { inner: &*anchor.ptr }.
Anchor_as_pin ==
    /\ own.kind = "Anchor"
    /\ ~BorrowedMut
    /\ FromOwner("Pin", "shared", FALSE)
    /\ ret' = NoRet
    /\ UNCHANGED <<own, mem>>

\* Anchor::as_pin_mut(&'a mut self), impl<T: Own + StableDerefMut>.
Anchor_as_pin_mut ==
    /\ own.kind = "Anchor"
    /\ StableDerefMut(own.ptr)
    /\ ~Borrowed
    /\ FromOwner("PinMut", "mut", FALSE)
    /\ ret' = NoRet
    /\ UNCHANGED <<own, mem>>

\* PinBox::as_pin(&'a mut self) = Pin { inner: &mut *self.inner }.
PinBox_as_pin ==
    /\ own.kind = "PinBox"
    /\ ~Borrowed
    /\ FromOwner("PinMut", "mut", FALSE)
    /\ ret' = NoRet
    /\ UNCHANGED <<own, mem>>

\* Pin::as_ref<'b>(&'b mut self) -> Pin<'b, T>.
Pin_as_ref(p) ==
    /\ refs[p].kind = "Pin"
    /\ Usable(p)
    /\ FromRef(p, "Pin", FALSE)
    /\ ret' = NoRet
    /\ UNCHANGED <<own, mem>>

\* PinMut::as_ref<'b>(&'b mut self) -> Pin<'b, T>.
PinMut_as_ref(p) ==
    /\ refs[p].kind = "PinMut"
    /\ Usable(p)
    /\ FromRef(p, "Pin", FALSE)
    /\ ret' = NoRet
    /\ UNCHANGED <<own, mem>>

\* PinMut::as_mut<'b>(&'b mut self) -> PinMut<'b, T>.
PinMut_as_mut(p) ==
    /\ refs[p].kind = "PinMut"
    /\ Usable(p)
    /\ FromRef(p, "PinMut", FALSE)
    /\ ret' = NoRet
    /\ UNCHANGED <<own, mem>>

\* ------------------------------------------------------------------ access
\* The trait bound on the safe mutable dereferences:
\* impl<'a, T: MovePinned + ?Sized> DerefMut for PinMut<'a, T>, and the same
\* bound on Anchor (where T::Target: MovePinned) and PinBox.
\* (DerefMutBound_None: the impl without the bound; DerefMutBound_Never: no
\* such impl.)
DerefMutBound_None(ty) == TRUE
DerefMutBound_Never(ty) == FALSE
DerefMutBound(ty) == MovePinned(ty)

\* The bound on the safe ways out of a PinBox: impl<T: MovePinned> PinBox<T>
\* { into_inner }, into_box, and Into<Box<T>> (T: Unpin) in boxed.rs.
IntoBound(ty) == MovePinned(ty)

\* A read by value of the target through a shared dereference.
Read(op, a) ==
    \E v \in ReadSet(a) :
        ret' = [op |-> op, val |-> v, ty |-> own.ty, owned |-> FALSE, safe |-> TRUE,
                exp |-> own.exp]

\* Deref for Pin: self.inner.
Pin_deref(p) ==
    /\ refs[p].kind = "Pin"
    /\ Usable(p)
    /\ Read("Pin_deref", refs[p].inner)
    /\ UNCHANGED <<own, mem, refs>>

\* Deref for PinMut: self.inner.
PinMut_deref(p) ==
    /\ refs[p].kind = "PinMut"
    /\ Usable(p)
    /\ Read("PinMut_deref", refs[p].inner)
    /\ UNCHANGED <<own, mem, refs>>

\* DerefMut for PinMut (T: MovePinned): self.inner, a plain &mut T.
PinMut_deref_mut(p) ==
    /\ refs[p].kind = "PinMut"
    /\ DerefMutBound(own.ty)
    /\ Usable(p)
    /\ FromRef(p, "RefMut", FALSE)
    /\ ret' = NoRet
    /\ UNCHANGED <<own, mem>>

\* unsafe PinMut::get_mut<'b>(pin: &'b mut PinMut<'a, T>) -> &'b mut T.
PinMut_get_mut(p) ==
    /\ refs[p].kind = "PinMut"
    /\ Usable(p)
    /\ FromRef(p, "RefMut", TRUE)
    /\ ret' = NoRet
    /\ UNCHANGED <<own, mem>>

\* unsafe PinMut::pinned_unchecked(ptr: &'a mut T) = PinMut { inner: ptr }:
\* the plain reference is moved into the PinMut.
PinMut_pinned_unchecked(r) ==
    /\ refs[r].kind = "RefMut"
    /\ Usable(r)
    /\ refs' = [refs EXCEPT ![r].kind = "PinMut", ![r].taint = TRUE]
    /\ ret' = NoRet
    /\ UNCHANGED <<own, mem>>

\* Deref for Anchor (lib.rs): &*self.ptr.
Anchor_deref ==
    /\ own.kind = "Anchor"
    /\ ~BorrowedMut
    /\ Read("Anchor_deref", own.addr)
    /\ UNCHANGED <<own, mem, refs>>

\* DerefMut for Anchor (T: Own + StableDerefMut, T::Target: MovePinned).
Anchor_deref_mut ==
    /\ own.kind = "Anchor"
    /\ StableDerefMut(own.ptr)
    /\ DerefMutBound(own.ty)
    /\ ~Borrowed
    /\ FromOwner("RefMut", "mut", FALSE)
    /\ ret' = NoRet
    /\ UNCHANGED <<own, mem>>

\* Deref for PinBox: &*self.inner.
PinBox_deref ==
    /\ own.kind = "PinBox"
    /\ ~BorrowedMut
    /\ Read("PinBox_deref", own.addr)
    /\ UNCHANGED <<own, mem, refs>>

\* DerefMut for PinBox (T: MovePinned in heap.rs, T: Unpin in boxed.rs).
PinBox_deref_mut ==
    /\ own.kind = "PinBox"
    /\ DerefMutBound(own.ty)
    /\ ~Borrowed
    /\ FromOwner("RefMut", "mut", FALSE)
    /\ ret' = NoRet
    /\ UNCHANGED <<own, mem>>

\* unsafe PinBox::get_mut(this: &'a mut PinBox<T>) -> &'a mut T (boxed.rs).
PinBox_get_mut ==
    /\ own.kind = "PinBox"
    /\ ~Borrowed
    /\ FromOwner("RefMut", "mut", TRUE)
    /\ ret' = NoRet
    /\ UNCHANGED <<own, mem>>

\* The PinBox is consumed and its content handed to the caller, as a T
\* (*self.inner) or as the Box<T> that owns it (self.inner).
PinBoxTake(op, safe) ==
    /\ own.kind = "PinBox"
    /\ ~Borrowed
    /\ \E v \in ReadSet(own.addr) :
         ret' = [op |-> op, val |-> v, ty |-> own.ty, owned |-> TRUE, safe |-> safe,
                 exp |-> own.exp]
    /\ own' = NoOwner
    /\ mem' = [mem EXCEPT ![own.addr] = Free]
    /\ UNCHANGED refs

\* PinBox::into_inner(self) -> T, impl<T: MovePinned>.
PinBox_into_inner == IntoBound(own.ty) /\ PinBoxTake("into_inner", TRUE)

\* PinBox::into_box(self) -> Box<T> (heap.rs), Into<Box<T>>::into (boxed.rs).
PinBox_into_box == IntoBound(own.ty) /\ PinBoxTake("into_box", TRUE)

\* unsafe PinBox::into_inner_unchecked(self) -> T.
PinBox_into_inner_unchecked == PinBoxTake("into_inner_unchecked", FALSE)

\* unsafe PinBox::into_box_unchecked(self) (heap.rs), PinBox::unpin (boxed.rs).
PinBox_into_box_unchecked == PinBoxTake("into_box_unchecked", FALSE)

\* ----------------------------------------------- through a plain &mut T
\* Where a write through the plain reference lands: deref_mut and get_mut
\* return self.inner (for an anchor &mut *self.ptr), the pinned location
\* itself and not a copy of it.
\* (WriteAddr_Copy: a reference to where the owner value is.)
WriteAddr_Copy(r) == own.loc
WriteAddr(r) == refs[r].inner

\* `r.f = x` through a plain mutable reference.
WriteField(r, f, x) ==
    /\ refs[r].kind = "RefMut"
    /\ Usable(r)
    /\ mem' = [mem EXCEPT ![WriteAddr(r)] = SetField(@, f, x)]
    /\ own' = [own EXCEPT !.exp = [@ EXCEPT ![f] = x]]
    /\ ret' = NoRet
    /\ UNCHANGED refs

\* mem::replace(r, v): the whole value is moved out and v moved in.
Replace(r, v) ==
    /\ refs[r].kind = "RefMut"
    /\ Usable(r)
    /\ \E old \in ReadSet(WriteAddr(r)) :
         ret' = [op |-> "replace", val |-> old, ty |-> own.ty, owned |-> TRUE,
                 safe |-> ~refs[r].taint, exp |-> own.exp]
    /\ mem' = [mem EXCEPT ![WriteAddr(r)] = v]
    /\ own' = [own EXCEPT !.exp = v]
    /\ UNCHANGED refs

\* ------------------------------------------------- reference-counted pointers
\* Deref for Anchor (mem.rs) returns &Ptr: the client reads the target
\* through it ...
mem_Anchor_deref ==
    /\ own.kind = "mem_Anchor"
    /\ ~BorrowedMut
    /\ Read("mem_Anchor_deref", own.addr)
    /\ UNCHANGED <<own, mem, refs>>

\* ... and clones a reference-counted pointer through it (Rc::clone(&*anchor)).
Rc_clone ==
    /\ own.kind = "mem_Anchor"
    /\ Shared(own.ptr)
    /\ ~BorrowedMut
    /\ own.clones < MaxClones
    /\ own' = [own EXCEPT !.clones = @ + 1]
    /\ ret' = NoRet
    /\ UNCHANGED <<mem, refs>>

\* A plain handle is dropped: the target is freed with the last one.
Rc_drop ==
    /\ own.kind = "Rc"
    /\ IF own.clones > 0
         THEN own' = [own EXCEPT !.clones = @ - 1] /\ mem' = mem
         ELSE own' = NoOwner /\ mem' = [mem EXCEPT ![own.addr] = Free]
    /\ ret' = NoRet
    /\ UNCHANGED refs

\* Rc::try_unwrap on the last handle moves the target out.
Rc_try_unwrap ==
    /\ own.kind = "Rc"
    /\ own.clones = 0
    /\ \E v \in ReadSet(own.addr) :
         ret' = [op |-> "Rc_try_unwrap", val |-> v, ty |-> own.ty, owned |-> TRUE,
                 safe |-> TRUE, exp |-> own.exp]
    /\ own' = NoOwner
    /\ mem' = [mem EXCEPT ![own.addr] = Free]
    /\ UNCHANGED refs

\* -------------------------------------------------------------------- next
Next ==
    \/ \E ty \in Types, v \in InitVals, a \in Addr : pinned(ty, v, a)
    \/ \E p \in PtrInputs, ty \in Types, v \in InitVals, l \in Addr, a \in Addr :
          Anchor_new(p, ty, v, l, a)
    \/ \E p \in PtrInputs, ty \in Types, v \in InitVals, l \in Addr, a \in Addr :
          mem_Anchor_new(p, ty, v, l, a)
    \/ \E ty \in Types, v \in InitVals, l \in Addr, a \in Addr : PinBox_new(ty, v, l, a)
    \/ \E to \in Addr : MoveOwner(to)
    \/ DropOwner
    \/ \E r \in RefIds : EndRef(r)
    \/ Pin_new
    \/ PinMut_new
    \/ StackPinned_as_pin
    \/ Anchor_as_pin
    \/ Anchor_as_pin_mut
    \/ PinBox_as_pin
    \/ \E p \in RefIds : Pin_as_ref(p)
    \/ \E p \in RefIds : PinMut_as_ref(p)
    \/ \E p \in RefIds : PinMut_as_mut(p)
    \/ \E p \in RefIds : Pin_deref(p)
    \/ \E p \in RefIds : PinMut_deref(p)
    \/ \E p \in RefIds : PinMut_deref_mut(p)
    \/ \E p \in RefIds : PinMut_get_mut(p)
    \/ \E r \in RefIds : PinMut_pinned_unchecked(r)
    \/ Anchor_deref
    \/ Anchor_deref_mut
    \/ PinBox_deref
    \/ PinBox_deref_mut
    \/ PinBox_get_mut
    \/ PinBox_into_inner
    \/ PinBox_into_box
    \/ PinBox_into_inner_unchecked
    \/ PinBox_into_box_unchecked
    \/ \E r \in RefIds, f \in Fields, x \in WriteVals : WriteField(r, f, x)
    \/ \E r \in RefIds, v \in ReplaceVals : Replace(r, v)
    \/ mem_Anchor_deref
    \/ Rc_clone
    \/ Rc_drop
    \/ Rc_try_unwrap

Spec == Init /\ [][Next]_vars

\* ------------------------------------------------------------- properties
Anchored == own.kind = "Anchor"
Slot == own.kind = "StackPinned"
LiveRefs == {r \in RefIds : Live(r)}
Pins == {r \in RefIds : refs[r].kind = "Pin"}
PinMuts == {r \in RefIds : refs[r].kind = "PinMut"}
RefMuts == {r \in RefIds : refs[r].kind = "RefMut"}
Reads == {"Pin_deref", "PinMut_deref", "Anchor_deref", "PinBox_deref",
          "mem_Anchor_deref"}
\* The calls of the pinning API (and the uses of the &mut T it hands out)
\* that give the caller the target by value.
WaysOut == {"into_inner", "into_box", "into_inner_unchecked", "into_box_unchecked",
            "replace"}

\* C1: as long as an anchor exists, its target is at the address it had when
\* the anchor was created, whatever moves of the anchor, derivations, reads
\* and writes have happened; every reference derived from the anchor points
\* to that address.
C1_TargetAddressStable ==
    Anchored =>
        /\ own.addr = own.addr0
        /\ mem[own.addr0] # Free
        /\ \A r \in LiveRefs : refs[r].inner = own.addr0

\* An anchor that has been moved after a write through a pinned mutable
\* reference, and then read through Deref.
C1_Witness ==
    /\ Anchored
    /\ own.loc # own.loc0
    /\ own.exp.a = 5
    /\ ret.op = "Anchor_deref"

\* C2: for a target whose type is not MovePinned, every plain &mut T to it and
\* every value of it handed to the caller by value came from an unsafe call.
C2_NoSafeEscape ==
    /\ \A r \in RefMuts : ~MovePinned(own.ty) => refs[r].taint
    /\ (ret.owned /\ ret.op \in WaysOut /\ ~MovePinned(ret.ty)) => ~ret.safe

\* A target that is not MovePinned, pinned mutably and reborrowed by as_mut,
\* with the plain reference an unsafe call gave.
C2_Witness ==
    /\ own.ty = "SelfRef"
    /\ \E p \in PinMuts : refs[p].n > 0
    /\ \E r \in RefMuts : refs[r].taint

\* C3: while a Pin or PinMut derived from a stack-pinned slot is alive, the
\* slot can neither be moved nor dropped.
C3_SlotFixedWhilePinned ==
    (Slot /\ (Pins \cup PinMuts) # {}) =>
        /\ ~ENABLED (\E to \in Addr : MoveOwner(to))
        /\ ~ENABLED DropOwner

\* A slot with a live Pin made by Pin::new.
C3_Witness ==
    /\ Slot
    /\ \E r \in Pins : refs[r].parent = 0

\* C4: a PinMut has at most one live reborrow; as_mut is rejected while one
\* is alive and accepted again once it has ended; the reborrow points where
\* the PinMut points.
C4_ReborrowExclusive ==
    \A p \in PinMuts :
        /\ Cardinality(Children(p)) <= 1
        /\ \A c \in Children(p) : refs[c].inner = refs[p].inner
        /\ Children(p) # {} => ~ENABLED PinMut_as_mut(p)
        /\ (Children(p) = {} /\ FreeIds # {}) => ENABLED PinMut_as_mut(p)

\* A PinMut reborrowed by as_mut for the second time, the reborrow alive.
C4_Witness ==
    \E p \in PinMuts :
        /\ refs[p].n = 2
        /\ \E c \in Children(p) : refs[c].kind = "PinMut"

\* C5: once an anchor has been dropped its target is gone: no handle to it is
\* left, and nothing moves the target out afterwards.
C5_DropDestroysTarget ==
    /\ own.kind = "Rc" => mem[own.addr] = Free
    /\ ret.op # "Rc_try_unwrap"

\* C6 as stated: once a field of a movable value in a stack-pinned slot has
\* been mutated through a pinned mutable reference and that reference has
\* ended, the slot can be used again, to extract the value from it.
C6_ExtractFromSlot ==
    (Slot /\ MovePinned(own.ty) /\ own.pinnedMut /\ own.exp \notin InitVals
          /\ LiveRefs = {})
        => ~Borrowed

\* C6 as amended: what is read back or moved out through a pinned mutable
\* reference derived from the slot is the value given to pinned with the
\* writes applied to it, and the slot itself stays exclusively borrowed.
C6_RoundTripThroughPinMut ==
    Slot =>
        /\ ret.op \in {"PinMut_deref", "replace"} => ret.val = ret.exp
        /\ own.pinnedMut => BorrowedMut /\ mem[own.addr] = own.exp

\* pinned({a: 1, b: 2}), a := 5 through the pinned mutable reference, and the
\* value moved out through it.
C6_Witness ==
    /\ Slot
    /\ ret.op = "replace" /\ ret.safe
    /\ ret.val = [a |-> 5, b |-> 2]

\* C7: a Pin can be reborrowed by as_ref while earlier reborrows of it are
\* alive.
C7_SharedReborrows ==
    \A p \in Pins : FreeIds # {} => ENABLED Pin_as_ref(p)

\* C8: a read through Deref returns the value the location is meant to hold:
\* the value pinned, with the fields written since holding what was written
\* and the others unchanged.
C8_ReadsObserveContents ==
    ret.op \in Reads => ret.val = ret.exp

\* Anchor over {a: 1, b: 2}, a := 5 through as_pin_mut, read through the anchor.
C8_Witness ==
    /\ ret.op = "Anchor_deref"
    /\ ret.val = [a |-> 5, b |-> 2]

\* C9: for a MovePinned target, a usable PinMut gives a plain &mut T by the
\* safe deref_mut, and a field write and a whole-value replacement through
\* that reference are accepted.
C9_MovableMutation ==
    MovePinned(own.ty) =>
        /\ \A p \in PinMuts : (Usable(p) /\ FreeIds # {}) => ENABLED PinMut_deref_mut(p)
        /\ \A r \in RefMuts : Usable(r) =>
              /\ \A f \in Fields : ENABLED (\E x \in WriteVals : WriteField(r, f, x))
              /\ ENABLED (\E v \in ReplaceVals : Replace(r, v))

\* An anchored movable value replaced as a whole through the &mut T that
\* deref_mut gave on the PinMut from as_pin_mut, no unsafe call made.
C9_Witness ==
    /\ Anchored
    /\ ret.op = "replace" /\ ret.safe
    /\ \E r \in RefMuts : refs[r].parent \in PinMuts /\ ~refs[r].taint

\* C10: once a pinned mutable reference has been derived from a slot, no
\* further derivation from the slot and no move of it is accepted, also after
\* the reference has ended; the value stays in place until the slot is
\* dropped.
C10_SlotPinnedMutOnce ==
    (Slot /\ own.pinnedMut) =>
        /\ ~ENABLED PinMut_new
        /\ ~ENABLED StackPinned_as_pin
        /\ ~ENABLED Pin_new
        /\ ~ENABLED (\E to \in Addr : MoveOwner(to))
        /\ mem[own.addr] # Free

\* A slot that was pinned mutably, every reference derived from it ended.
C10_Witness ==
    /\ Slot
    /\ own.pinnedMut
    /\ LiveRefs = {}
=============================================================================
